---- MODULE Spec2Model ----
(***************************************************************************)
(* Model of the mailtrap-go sending client: the transport core             *)
(* (client.NewRequest, client.Do, client.decode, checkResponse), the two   *)
(* sending clients (ProductionSendingClient, SandboxSendingClient) and the *)
(* send-request validation and JSON serialisation.                         *)
(*                                                                         *)
(* Go strings are TLA+ strings, Go slices are sequences (the nil slice is  *)
(* the empty sequence), a Go map is a sequence of <<key, value>> pairs     *)
(* (the nil map is the empty sequence), a Go error is a record whose type  *)
(* field names its dynamic type (Nil is the nil error).                    *)
(***************************************************************************)
EXTENDS Integers, Sequences, FiniteSets, TLC

VARIABLES c, configured, ncalls, request, ret, calls

vars == <<c, configured, ncalls, request, ret, calls>>

(***************************************************************************)
(* Bounds of the model.                                                    *)
(***************************************************************************)
MaxTo == 2
MaxAtt == 2
MaxCalls == 2
NProcs == 2

(***************************************************************************)
(* Program constants.                                                      *)
(***************************************************************************)
categoryMaxLength == 255

apiSuffix == "api"

defaultAccept == "application/json"

userAgent == "mailtrap-go/0.1.2"

sendingAPIURL == [Scheme |-> "https", Host |-> "send.api.mailtrap.io", Path |-> "/"]

sandboxAPIURL == [Scheme |-> "https", Host |-> "sandbox.api.mailtrap.io", Path |-> "/"]

(***************************************************************************)
(* Errors.                                                                 *)
(***************************************************************************)
Nil == [type |-> "nil"]

ErrorsNew(msg) == [type |-> "errorString", msg |-> msg]

(***************************************************************************)
(* strings.Join and strings.Repeat.                                        *)
(***************************************************************************)
RECURSIVE Join(_, _)
Join(elems, sep) ==
  IF Len(elems) = 0 THEN ""
  ELSE IF Len(elems) = 1 THEN elems[1]
  ELSE elems[1] \o sep \o Join(Tail(elems), sep)

RECURSIVE Repeat(_, _)
Repeat(s, count) ==
  IF count = 0 THEN ""
  ELSE LET half == Repeat(s, count \div 2) IN
    IF count % 2 = 0 THEN half \o half ELSE half \o half \o s

(***************************************************************************)
(* The data model: EmailAddress, EmailAttachment, SendEmailRequest.        *)
(***************************************************************************)
EmailAddress(email, name) == [Email |-> email, Name |-> name]

EmailAttachment(content, type, filename, disposition, cid) ==
  [Content |-> content, AttachType |-> type, Filename |-> filename,
   Disposition |-> disposition, ContentID |-> cid]

\* The zero value SendEmailRequest{}.
ZeroRequest ==
  [From |-> EmailAddress("", ""), To |-> <<>>, Cc |-> <<>>, Bcc |-> <<>>,
   Attachments |-> <<>>, Headers |-> <<>>, CustomVars |-> <<>>,
   Subject |-> "", Text |-> "", HTML |-> "", Category |-> ""]

(***************************************************************************)
(* SendEmailRequest.validate.                                              *)
(***************************************************************************)
\* The loop over r.To: some entry has an empty email.
ToLoopHit(to) == \E i \in 1..Len(to) : to[i].Email = ""

\* The loop body with its two checks in the other order.
AttachmentBodyFilenameFirst(v) ==
  (IF v.Filename = "" THEN <<"'filename' is required in attachment">> ELSE <<>>)
  \o (IF v.Content = "" THEN <<"'content' is required in attachment">> ELSE <<>>)

\* One pass of the loop body over an attachment: the messages it appends.
AttachmentBody(v) ==
  (IF v.Content = "" THEN <<"'content' is required in attachment">> ELSE <<>>)
  \o (IF v.Filename = "" THEN <<"'filename' is required in attachment">> ELSE <<>>)

\* The loop over r.Attachments, appending to errMsg.
RECURSIVE AttachmentLoop(_, _)
AttachmentLoop(atts, errMsg) ==
  IF atts = <<>> THEN errMsg
  ELSE AttachmentLoop(Tail(atts), errMsg \o AttachmentBody(Head(atts)))

\* The category check with >= for >.
CategoryTooLongGE(category) == Len(category) >= categoryMaxLength

CategoryTooLong(category) == Len(category) > categoryMaxLength

validate(r) ==
  IF r.From.Email = "" THEN ErrorsNew("'from' address is required")
  ELSE IF Len(r.To) = 0 THEN ErrorsNew("'to' address is required")
  ELSE IF ToLoopHit(r.To) THEN ErrorsNew("'email' is required in 'to' address")
  ELSE LET errMsg == AttachmentLoop(r.Attachments, <<>>) IN
    IF Len(r.Attachments) > 0 /\ Len(errMsg) > 0
      THEN ErrorsNew(Join(errMsg, "; "))
    ELSE IF r.Subject = "" THEN ErrorsNew("'subject' is required")
    ELSE IF r.Text = "" /\ r.HTML = ""
      THEN ErrorsNew("one of 'text' or 'html' is required")
    ELSE IF CategoryTooLong(r.Category)
      THEN ErrorsNew("'category' is greater than " \o ToString(categoryMaxLength) \o " chars")
    ELSE Nil

(***************************************************************************)
(* encoding/json on SendEmailRequest.  The struct tags name the wire keys  *)
(* and carry no option, so the encoder writes every field, in declaration  *)
(* order: a nil slice or map as null, an empty string as "".  The strings  *)
(* of the model hold no character that JSON escapes.                       *)
(***************************************************************************)
JString(s) == "\"" \o s \o "\""

JAddress(a) ==
  "{\"email\":" \o JString(a.Email) \o ",\"name\":" \o JString(a.Name) \o "}"

JAttachment(a) ==
  "{\"content\":" \o JString(a.Content) \o ",\"type\":" \o JString(a.AttachType)
  \o ",\"filename\":" \o JString(a.Filename)
  \o ",\"disposition\":" \o JString(a.Disposition)
  \o ",\"content_id\":" \o JString(a.ContentID) \o "}"

JPair(kv) == JString(kv[1]) \o ":" \o JString(kv[2])

JAddressList(l) ==
  IF l = <<>> THEN "null"
  ELSE "[" \o Join([i \in 1..Len(l) |-> JAddress(l[i])], ",") \o "]"

JAttachmentList(l) ==
  IF l = <<>> THEN "null"
  ELSE "[" \o Join([i \in 1..Len(l) |-> JAttachment(l[i])], ",") \o "]"

JMap(m) ==
  IF m = <<>> THEN "null"
  ELSE "{" \o Join([i \in 1..Len(m) |-> JPair(m[i])], ",") \o "}"

\* One struct field: its wire name and its encoded value.
JField(name, value) == JString(name) \o ":" \o value

\* json.Marshal(&SendEmailRequest{...}).
Marshal(r) ==
  "{" \o Join(<<JField("from", JAddress(r.From)),
                JField("to", JAddressList(r.To)),
                JField("cc", JAddressList(r.Cc)),
                JField("bcc", JAddressList(r.Bcc)),
                JField("attachments", JAttachmentList(r.Attachments)),
                JField("headers", JMap(r.Headers)),
                JField("custom_variables", JMap(r.CustomVars)),
                JField("subject", JString(r.Subject)),
                JField("text", JString(r.Text)),
                JField("html", JString(r.HTML)),
                JField("category", JString(r.Category))>>, ",") \o "}"

(***************************************************************************)
(* Inputs of the serialisation and validation checks.                      *)
(***************************************************************************)
RECURSIVE SeqsUpTo(_, _)
SeqsUpTo(S, n) ==
  IF n = 0 THEN {<<>>}
  ELSE LET shorter == SeqsUpTo(S, n - 1) IN
    shorter \cup {Append(s, x) : s \in {t \in shorter : Len(t) = n - 1}, x \in S}

ToEntries == {EmailAddress("", "John Doe"), EmailAddress("johndoe@example.com", "John Doe")}

AttachmentEntries ==
  {EmailAttachment(co, "text/html", fn, "attachment", "") :
     co \in {"", "PGh0bWw+"}, fn \in {"", "index.html"}}

Categories == {"", Repeat("c", categoryMaxLength), Repeat("c", categoryMaxLength + 1)}

\* Requests that vary every field validate reads.
ValidateInputs ==
  {[ZeroRequest EXCEPT !.From = EmailAddress(fe, "Ches"), !.To = to, !.Attachments = at,
                       !.Subject = su, !.Text = tx, !.HTML = ht, !.Category = ca] :
     fe \in {"", "ches@example.com"},
     to \in SeqsUpTo(ToEntries, MaxTo),
     at \in SeqsUpTo(AttachmentEntries, MaxAtt),
     su \in {"", "Your Example Order Confirmation"},
     tx \in {"", "Congratulations"},
     ht \in {"", "<p>Congratulations</p>"},
     ca \in Categories}

\* Requests that set or leave empty each field the encoder writes.
MarshalInputs ==
  {[From |-> fr, To |-> to, Cc |-> cc, Bcc |-> bcc, Attachments |-> at,
    Headers |-> hd, CustomVars |-> cv, Subject |-> su, Text |-> tx, HTML |-> ht,
    Category |-> ca] :
     fr \in {EmailAddress("", ""), EmailAddress("ches@example.com", "Ches")},
     to \in {<<>>, <<EmailAddress("johndoe@example.com", "John Doe"), EmailAddress("mike@example.com", "Mike")>>},
     cc \in {<<>>, <<EmailAddress("info@example.com", "Example LLC")>>},
     bcc \in {<<>>, <<EmailAddress("dontreply@example.com", "")>>},
     at \in {<<>>, <<EmailAttachment("PGh0bWw+", "text/html", "index.html", "attachment", "")>>},
     hd \in {<<>>, <<<<"X-Message-Source", "mail.example.com">>>>},
     cv \in {<<>>, <<<<"batch_id", "2">>, <<"user_id", "1">>>>},
     su \in {"", "Your Example Order Confirmation"},
     tx \in {"", "Congratulations"},
     ht \in {"", "<p>Congratulations</p>"},
     ca \in {"", "API Client"}}

(***************************************************************************)
(* The transport core: client, getClient and the two constructors.         *)
(* The client holds baseURL as a pointer to a url.URL; the model keeps the *)
(* pointed-to URL in the client record, so an assignment through an alias  *)
(* of the pointer is an update of the client's baseURL.                    *)
(***************************************************************************)
APIKeys == {"api-token"}

InboxIDs == {1, 42}

getClient(apiKey, baseURL) ==
  [apiKey |-> apiKey,
   baseURL |-> [baseURL EXCEPT !.Path = @ \o apiSuffix],
   userAgent |-> userAgent]

NewSendingClient(apiKey) ==
  [kind |-> "production", client |-> getClient(apiKey, sendingAPIURL)]

NewSandboxSendingClient(apiKey, inboxID) ==
  [kind |-> "sandbox", client |-> getClient(apiKey, sandboxAPIURL), inboxID |-> inboxID]

(***************************************************************************)
(* net/url and net/http as the client uses them.                           *)
(***************************************************************************)
\* url.URL.String()
URLString(u) == u.Scheme \o "://" \o u.Host \o u.Path

\* Hosts url.Parse rejects when http.NewRequest parses the URL string.
BadHosts == {"bad host"}

ValidMethods == {"GET", "HEAD", "OPTIONS", "POST", "PUT", "DELETE"}

NoHeader == [ContentType |-> "", Accept |-> "", UserAgent |-> "", Authorization |-> ""]

NilRequest == [type |-> "nil"]

\* http.NewRequest(method, u.String(), body): the request, or an error for a
\* method that is no token or a URL that does not parse.  An empty buffer
\* attaches no body.
httpNewRequest(method, u, hasReader, data) ==
  IF method \notin ValidMethods
    THEN [req |-> NilRequest, err |-> [type |-> "errorString", msg |-> "net/http: invalid method"]]
  ELSE IF u.Host \in BadHosts
    THEN [req |-> NilRequest, err |-> [type |-> "url.Error", msg |-> "parse: invalid host"]]
  ELSE [req |-> [Method |-> method, URL |-> URLString(u), Header |-> NoHeader,
                 HasBody |-> hasReader /\ data # "", Body |-> IF hasReader THEN data ELSE ""],
        err |-> Nil]

(***************************************************************************)
(* Values passed as the body of NewRequest.                                *)
(***************************************************************************)
NilBody == [kind |-> "nil"]

\* A value encoding/json can encode, with its encoding.
JSONBody(text) == [kind |-> "value", json |-> text]

\* A value encoding/json cannot encode (a channel, a function).
UnsupportedBody == [kind |-> "unsupported"]

\* json.NewEncoder(buf).Encode(body): the encoding and a newline.
Encode(body) ==
  IF body.kind = "unsupported"
    THEN [data |-> "", err |-> [type |-> "json.UnsupportedTypeError"]]
    ELSE [data |-> body.json \o "\n", err |-> Nil]

\* The header assignments that end NewRequest.
SetHeaders(cl, req, body) ==
  [req EXCEPT !.Header =
     [ContentType |-> IF body # NilBody THEN "application/json" ELSE "",
      Accept |-> defaultAccept,
      UserAgent |-> cl.userAgent,
      Authorization |-> "Bearer " \o cl.apiKey]]

\* u := c.baseURL; u.Path = c.baseURL.Path + path.  u is the client's own
\* pointer, so the assignment writes the client's base URL.
JoinPath(cl, path) == [cl EXCEPT !.baseURL.Path = @ \o path]

\* client.NewRequest: the client after the call, the request and the error.
NewRequest(cl, method, path, body) ==
  LET cl2 == JoinPath(cl, path)
      u == cl2.baseURL
      fail(e) == [client |-> cl2, req |-> NilRequest, err |-> e]
      done(r) == [client |-> cl2, req |-> SetHeaders(cl2, r, body), err |-> Nil]
  IN IF method \in {"GET", "HEAD", "OPTIONS"}
       THEN LET r == httpNewRequest(method, u, FALSE, "") IN
            IF r.err # Nil THEN fail(r.err) ELSE done(r.req)
       ELSE LET enc == IF body # NilBody THEN Encode(body) ELSE [data |-> "", err |-> Nil] IN
            IF enc.err # Nil THEN fail(enc.err)
            ELSE LET r == httpNewRequest(method, u, TRUE, enc.data) IN
                 IF r.err # Nil THEN fail(r.err) ELSE done(r.req)

(***************************************************************************)
(* What the HTTP transport can answer.  A body is its raw text together    *)
(* with what a JSON parser makes of it: an object with its members, a      *)
(* value that is no object, or no JSON at all.                             *)
(***************************************************************************)
NoMembers == [success |-> FALSE, message_ids |-> <<>>, error |-> ""]

BodySent ==
  [raw |-> "{\"success\":true,\"message_ids\":[\"0c7fd939\",\"5e7fd111\"]}",
   syntax |-> "object",
   members |-> [NoMembers EXCEPT !.success = TRUE, !.message_ids = <<"0c7fd939", "5e7fd111">>]]

BodyError ==
  [raw |-> "{\"error\":\"Unauthorized\"}", syntax |-> "object",
   members |-> [NoMembers EXCEPT !.error = "Unauthorized"]]

BodyScalar == [raw |-> "\"Unauthorized\"", syntax |-> "scalar", members |-> NoMembers]

BodyText == [raw |-> "Service Unavailable", syntax |-> "invalid", members |-> NoMembers]

BodyEmpty == [raw |-> "", syntax |-> "invalid", members |-> NoMembers]

Bodies == {BodySent, BodyError, BodyScalar, BodyText, BodyEmpty}

StatusCodes == {199, 200, 299, 300}

\* c.httpClient.Do(req): a transport failure, or a response.
TransportFailure == [failed |-> TRUE]

\* The Content-Type the server sets for a body.
ContentTypeOf(b) == IF b.syntax = "invalid" THEN "text/plain" ELSE "application/json"

Outcomes ==
  {TransportFailure}
  \cup {[failed |-> FALSE, StatusCode |-> sc, Header |-> [ContentType |-> ContentTypeOf(b)],
         Body |-> b] : sc \in StatusCodes, b \in Bodies}

NilResponse == [type |-> "nil"]

\* http.Response as the transport hands it over, and Response wrapping it.
HTTPResponse(o) == [StatusCode |-> o.StatusCode, Header |-> o.Header, Body |-> o.Body]

\* The transport call with one retry after a failure.
httpClientDoRetry(req, o) ==
  IF o.failed
    THEN [resp |-> NilResponse, err |-> [type |-> "url.Error", msg |-> "transport"],
          sent |-> <<req, req>>]
    ELSE [resp |-> HTTPResponse(o), err |-> Nil, sent |-> <<req>>]

\* c.httpClient.Do(req): the request goes to the transport once.
httpClientDo(req, o) ==
  IF o.failed
    THEN [resp |-> NilResponse, err |-> [type |-> "url.Error", msg |-> "transport"],
          sent |-> <<req>>]
    ELSE [resp |-> HTTPResponse(o), err |-> Nil, sent |-> <<req>>]

\* The success range with its upper end left out.
StatusOKBelow299(code) == code >= 200 /\ code < 299

\* The status codes checkResponse takes for success.
StatusOK(code) == code >= 200 /\ code <= 299

\* ErrorResponse, decoded from a JSON object by json.Unmarshal.
UnmarshalError(errResponse, data) ==
  IF data.syntax = "object"
    THEN [value |-> [errResponse EXCEPT !.Message = data.members.error], err |-> Nil]
    ELSE [value |-> errResponse, err |-> [type |-> "json.SyntaxError"]]

\* checkResponse
checkResponse(r) ==
  IF StatusOK(r.StatusCode) THEN Nil
  ELSE LET errResponse == [type |-> "ErrorResponse", Response |-> r, Message |-> ""]
           data == r.Body
       IN IF Len(data.raw) > 0
            THEN LET u == UnmarshalError(errResponse, data) IN
                 IF u.err # Nil THEN [errResponse EXCEPT !.Message = data.raw]
                 ELSE u.value
            ELSE errResponse

(***************************************************************************)
(* Destinations of Do: nil, a pointer to a string, or a pointer to a typed *)
(* value, a SendEmailResponse.  The value written is returned next to the  *)
(* error.                                                                  *)
(***************************************************************************)
Destinations == {"nil", "string", "typed"}

NoValue == [type |-> "unset"]

\* json.NewDecoder(body).Decode(v) into a SendEmailResponse.
DecodeJSON(body) ==
  IF body.syntax = "object"
    THEN [value |-> [Success |-> body.members.success, MessageIDs |-> body.members.message_ids],
          err |-> Nil]
    ELSE [value |-> NoValue, err |-> [type |-> "json.SyntaxError"]]

\* decode without the test of the Accept header.
decodeAnyAccept(v, body, acceptHeader) ==
  IF v = "string" THEN [value |-> body.raw, err |-> Nil]
  ELSE DecodeJSON(body)

\* client.decode
decode(v, body, acceptHeader) ==
  IF v = "string" THEN [value |-> body.raw, err |-> Nil]
  ELSE IF v # "nil" /\ acceptHeader = defaultAccept THEN DecodeJSON(body)
  ELSE [value |-> NoValue, err |-> ErrorsNew("decode() undefined response type")]

\* A response body as a stream: the bytes not yet read from it and whether
\* it has been closed.  NoBody stands for the body of no response.
NoBody == [type |-> "nil"]

OpenBody(b) == [unread |-> b.raw, closed |-> FALSE]

\* io.ReadAll(body): reads to the end of the stream.
ReadAll(bs) == [bs EXCEPT !.unread = ""]

\* resp.Body.Close()
Close(bs) == [bs EXCEPT !.closed = TRUE]

\* What checkResponse reads of the body: all of it for a status outside
\* 200..299, nothing otherwise.
checkResponseBody(r, bs) == IF StatusOK(r.StatusCode) THEN bs ELSE ReadAll(bs)

\* What decode reads of the body.  The JSON decoder fills its buffer from
\* the stream in blocks of at least 512 bytes, which takes the whole of a
\* body as short as the ones here, valid JSON or not.
decodeBody(v, bs, acceptHeader) ==
  IF v = "string" THEN ReadAll(bs)
  ELSE IF v # "nil" /\ acceptHeader = defaultAccept THEN ReadAll(bs)
  ELSE bs

\* client.Do: the response, the error, the value left in the destination,
\* the requests handed to the transport and the response body as the
\* deferred Close leaves it.
Do(req, v, o) ==
  LET t == httpClientDo(req, o) IN
  IF t.err # Nil
    THEN [resp |-> NilResponse, err |-> t.err, value |-> NoValue, sent |-> t.sent,
          body |-> NoBody]
  ELSE LET resp == t.resp
           response == [Response |-> resp]
           cerr == checkResponse(resp)
           checked == checkResponseBody(resp, OpenBody(resp.Body))
       IN IF cerr # Nil
            THEN [resp |-> response, err |-> cerr, value |-> NoValue, sent |-> t.sent,
                  body |-> Close(checked)]
          ELSE IF v # "nil"
            THEN LET d == decode(v, resp.Body, req.Header.Accept)
                     decoded == decodeBody(v, checked, req.Header.Accept)
                 IN IF d.err # Nil
                      THEN [resp |-> response, err |-> d.err, value |-> d.value,
                            sent |-> t.sent, body |-> Close(decoded)]
                      ELSE [resp |-> response, err |-> Nil, value |-> d.value,
                            sent |-> t.sent, body |-> Close(decoded)]
          ELSE [resp |-> response, err |-> Nil, value |-> NoValue, sent |-> t.sent,
                body |-> Close(checked)]

(***************************************************************************)
(* The sending clients.                                                    *)
(***************************************************************************)
NullRequest == [null |-> TRUE]

NilSendResponse == [type |-> "nil"]

\* The message of the error for a nil request (the source sets the type name
\* in back quotes, which a TLA+ string cannot hold).
MandatoryMsg == "request SendEmailRequest is mandatory"

\* Send returning the typed response also next to an error.
SendReturnKeep(response, res, err) ==
  [response |-> response, res |-> res, err |-> err]

\* The two returns that end Send: after Do failed, and after it succeeded.
SendReturn(response, res, err) ==
  IF err # Nil
    THEN [response |-> NilSendResponse, res |-> res, err |-> err]
    ELSE [response |-> response, res |-> res, err |-> err]

\* The body of Send, shared by both clients up to the path: the client
\* after the call and the three results, with the requests handed to the
\* transport.
SendBody(sc, r, path, o) ==
  IF r = NullRequest
    THEN [sc |-> sc, response |-> NilSendResponse, res |-> NilResponse,
          err |-> ErrorsNew(MandatoryMsg), sent |-> <<>>]
  ELSE LET verr == validate(r) IN
    IF verr # Nil
      THEN [sc |-> sc, response |-> NilSendResponse, res |-> NilResponse, err |-> verr,
            sent |-> <<>>]
    ELSE LET nr == NewRequest(sc.client, "POST", path, JSONBody(Marshal(r)))
             sc2 == [sc EXCEPT !.client = nr.client]
         IN IF nr.err # Nil
              THEN [sc |-> sc2, response |-> NilSendResponse, res |-> NilResponse,
                    err |-> nr.err, sent |-> <<>>]
            ELSE LET d == Do(nr.req, "typed", o)
                     out == SendReturn(d.value, d.resp, d.err)
                 IN [sc |-> sc2, response |-> out.response, res |-> out.res,
                     err |-> out.err, sent |-> d.sent]

\* ProductionSendingClient.Send
ProductionSend(sc, r, o) == SendBody(sc, r, "/send", o)

\* SandboxSendingClient.Send
SandboxSend(sc, r, o) == SendBody(sc, r, "/send/" \o ToString(sc.inboxID), o)

(***************************************************************************)
(* Inputs of the operations.                                               *)
(***************************************************************************)
Clients ==
  {NewSendingClient(k) : k \in APIKeys}
  \cup {NewSandboxSendingClient(k, id) : k \in APIKeys, id \in InboxIDs}

\* emailRequestMock() of the tests, with shortened texts.
MockRequest ==
  [From |-> EmailAddress("ches@example.com", "Ches"),
   To |-> <<EmailAddress("johndoe@example.com", "John Doe"), EmailAddress("mike@example.com", "Mike")>>,
   Cc |-> <<EmailAddress("info@example.com", "Example LLC")>>,
   Bcc |-> <<EmailAddress("dontreply@example.com", "")>>,
   Attachments |-> <<EmailAttachment("PGh0bWw+", "text/html", "index.html", "attachment", "")>>,
   Headers |-> <<<<"X-Message-Source", "mail.example.com">>>>,
   CustomVars |-> <<<<"batch_id", "2">>, <<"user_id", "1">>>>,
   Subject |-> "Your Example Order Confirmation",
   Text |-> "Congratulations",
   HTML |-> "",
   Category |-> "API Client"]

\* Requests the tests send: nil, the mock, a minimal valid one, and ones
\* that fail validation.
SendInputs ==
  {NullRequest, MockRequest,
   [MockRequest EXCEPT !.Attachments = <<>>, !.Cc = <<>>, !.Bcc = <<>>, !.Headers = <<>>,
                       !.CustomVars = <<>>, !.Category = ""],
   [ZeroRequest EXCEPT !.To = <<EmailAddress("test@example.com", "")>>],
   [MockRequest EXCEPT !.Attachments = <<EmailAttachment("", "", "", "", "")>>],
   [MockRequest EXCEPT !.Category = Repeat("c", categoryMaxLength + 5)]}

Methods == ValidMethods \cup {"BAD METHOD"}

Paths == {"/accounts"}

RequestBodies == {NilBody, JSONBody("{\"name\":\"inbox\"}"), UnsupportedBody}

Accepts == {defaultAccept, "text/plain"}

\* Requests a caller hands to Do: built for the client's address, with the
\* Accept header of its choice.
DoRequests(cl) ==
  {[Method |-> "GET", URL |-> URLString(cl.baseURL),
    Header |-> [NoHeader EXCEPT !.Accept = a, !.UserAgent = cl.userAgent,
                                !.Authorization = "Bearer " \o cl.apiKey],
    HasBody |-> FALSE, Body |-> ""] : a \in Accepts}

\* Base addresses the test setup installs: the test server, and a host
\* that does not parse.
TestURLs ==
  {[Scheme |-> "http", Host |-> "127.0.0.1:8080", Path |-> ""],
   [Scheme |-> "http", Host |-> "bad host", Path |-> ""]}

(***************************************************************************)
(* The state machine.  c is the sending client, configured the base        *)
(* address it was last given (by its constructor or by setBaseURL),        *)
(* ncalls the number of calls that built a request, ret the last call      *)
(* with its arguments and results, calls the calls running concurrently   *)
(* on the client, one per goroutine.                                       *)
(***************************************************************************)
Procs == 1 .. NProcs

\* A goroutine that has no call running.
IdleCall == [pc |-> "idle", path |-> "", sum |-> "", url |-> "", shared |-> FALSE]

NoCalls == [p \in Procs |-> IdleCall]

Init ==
  /\ c \in Clients
  /\ configured = c.client.baseURL
  /\ ncalls = 0
  /\ request = NullRequest
  /\ ret = [op |-> "init"]
  /\ calls = NoCalls

\* The transport's answer is part of a call only when a request reached it.
NotConsulted == [failed |-> FALSE, none |-> TRUE]

SendResult(r, o, s) ==
  [op |-> "Send", request |-> r, outcome |-> IF s.sent = <<>> THEN NotConsulted ELSE o,
   response |-> s.response, res |-> s.res, err |-> s.err, sent |-> s.sent]

SendProduction(r, o) ==
  /\ c.kind = "production"
  /\ LET s == ProductionSend(c, r, o) IN
       /\ c' = s.sc
       /\ ret' = SendResult(r, o, s)
  /\ ncalls' = ncalls + 1
  /\ UNCHANGED <<configured, request, calls>>

SendSandbox(r, o) ==
  /\ c.kind = "sandbox"
  /\ LET s == SandboxSend(c, r, o) IN
       /\ c' = s.sc
       /\ ret' = SendResult(r, o, s)
  /\ ncalls' = ncalls + 1
  /\ UNCHANGED <<configured, request, calls>>

NewRequestCall(method, path, body) ==
  /\ LET nr == NewRequest(c.client, method, path, body) IN
       /\ c' = [c EXCEPT !.client = nr.client]
       /\ ret' = [op |-> "NewRequest", method |-> method, path |-> path, body |-> body,
                  req |-> nr.req, err |-> nr.err]
  /\ ncalls' = ncalls + 1
  /\ UNCHANGED <<configured, request, calls>>

DoCall(req, v, o) ==
  /\ LET d == Do(req, v, o) IN
       ret' = [op |-> "Do", req |-> req, v |-> v, outcome |-> o, resp |-> d.resp,
               err |-> d.err, value |-> d.value, sent |-> d.sent, body |-> d.body]
  /\ UNCHANGED <<c, configured, ncalls, request, calls>>

setBaseURL(u) ==
  /\ c' = [c EXCEPT !.client.baseURL = u]
  /\ configured' = u
  /\ ret' = [op |-> "setBaseURL", u |-> u]
  /\ UNCHANGED <<ncalls, request, calls>>

Next ==
  \/ \E r \in SendInputs, o \in Outcomes : ncalls < MaxCalls /\ SendProduction(r, o)
  \/ \E r \in SendInputs, o \in Outcomes : ncalls < MaxCalls /\ SendSandbox(r, o)
  \/ \E m \in Methods, p \in Paths, b \in RequestBodies :
       ncalls < MaxCalls /\ NewRequestCall(m, p, b)
  \/ \E u \in TestURLs : setBaseURL(u)

Spec == Init /\ [][Next]_vars

(***************************************************************************)
(* Do called on its own, with each destination and Accept header.          *)
(***************************************************************************)
NextDo ==
  \/ \E req \in DoRequests(c.client), v \in Destinations, o \in Outcomes : DoCall(req, v, o)
  \/ \E u \in TestURLs : setBaseURL(u)

SpecDo == Init /\ [][NextDo]_vars

(***************************************************************************)
(* Validation of one request: the request is drawn at the start and sent   *)
(* once, by either client.                                                 *)
(***************************************************************************)
InitValidate ==
  /\ c \in Clients
  /\ configured = c.client.baseURL
  /\ ncalls = 0
  /\ request \in ValidateInputs
  /\ ret = [op |-> "init"]
  /\ calls = NoCalls

\* The answers the transport gives while validation is examined: a
\* failure, and the body of a delivered message.
ValidateOutcomes ==
  {o \in Outcomes : o.failed \/ (o.StatusCode = 200 /\ o.Body = BodySent)}

NextValidate ==
  \/ \E o \in ValidateOutcomes : ret.op = "init" /\ SendProduction(request, o)
  \/ \E o \in ValidateOutcomes : ret.op = "init" /\ SendSandbox(request, o)

SpecValidate == InitValidate /\ [][NextValidate]_vars

(***************************************************************************)
(* Serialisation of one request.                                           *)
(***************************************************************************)
InitMarshal ==
  /\ c \in Clients
  /\ configured = c.client.baseURL
  /\ ncalls = 0
  /\ request \in MarshalInputs
  /\ ret = [op |-> "init"]
  /\ calls = NoCalls

MarshalCall ==
  /\ ret.op = "init"
  /\ ret' = [op |-> "Marshal", request |-> request, out |-> Marshal(request)]
  /\ UNCHANGED <<c, configured, ncalls, request, calls>>

NextMarshal == MarshalCall

SpecMarshal == InitMarshal /\ [][NextMarshal]_vars

(***************************************************************************)
(* Calls running concurrently on one client, with no setBaseURL.  A call   *)
(* is NewRequest, entered directly or from Send once the request has been  *)
(* validated, taken in the steps in which it touches the client: it loads  *)
(* the base path and joins its own path to it, stores the sum through the  *)
(* shared URL, and later reads the URL back into the request line.  The    *)
(* goroutines are not synchronised, so the steps of different calls        *)
(* interleave freely; each step is taken as one memory access.             *)
(***************************************************************************)
\* The path Send hands to NewRequest.
SendPath(sc) ==
  IF sc.kind = "production" THEN "/send" ELSE "/send/" \o ToString(sc.inboxID)

\* The paths of the concurrent calls: Send's and a service's.
ConcurrentPaths(sc) == {SendPath(sc)} \cup Paths

Running(p) == calls[p].pc \in {"load", "store", "string"}

\* Another call is in flight while call p touches the base path.  Every
\* call stores to the base path, so the access of p and the store of that
\* call are unordered accesses to one field.
Overlaps(p) == \E q \in Procs \ {p} : Running(q)

\* A goroutine enters NewRequest with its path.
BeginCall(p, path) ==
  /\ calls[p].pc = "idle"
  /\ calls' = [calls EXCEPT ![p] = [IdleCall EXCEPT !.pc = "load", !.path = path]]
  /\ UNCHANGED <<c, configured, ncalls, request, ret>>

\* c.baseURL.Path + path
LoadPath(p) ==
  /\ calls[p].pc = "load"
  /\ calls' = [calls EXCEPT ![p].pc = "store",
                            ![p].sum = c.client.baseURL.Path \o calls[p].path,
                            ![p].shared = @ \/ Overlaps(p)]
  /\ UNCHANGED <<c, configured, ncalls, request, ret>>

\* u.Path = ..., u being the client's own URL
StorePath(p) ==
  /\ calls[p].pc = "store"
  /\ c' = [c EXCEPT !.client.baseURL.Path = calls[p].sum]
  /\ calls' = [calls EXCEPT ![p].pc = "string", ![p].shared = @ \/ Overlaps(p)]
  /\ UNCHANGED <<configured, ncalls, request, ret>>

\* u.String(), the address of the request
StringURL(p) ==
  /\ calls[p].pc = "string"
  /\ calls' = [calls EXCEPT ![p].pc = "done",
                            ![p].url = URLString(c.client.baseURL),
                            ![p].shared = @ \/ Overlaps(p)]
  /\ ncalls' = ncalls + 1
  /\ UNCHANGED <<c, configured, request, ret>>

NextConcurrent ==
  \/ \E p \in Procs, path \in ConcurrentPaths(c) : BeginCall(p, path)
  \/ \E p \in Procs : LoadPath(p)
  \/ \E p \in Procs : StorePath(p)
  \/ \E p \in Procs : StringURL(p)

SpecConcurrent == Init /\ [][NextConcurrent]_vars

(***************************************************************************)
(* The validation rules as the specification numbers them.                 *)
(***************************************************************************)
RuleViolated(i, r) ==
  CASE i = 1 -> r.From.Email = ""
    [] i = 2 -> r.To = <<>>
    [] i = 3 -> \E k \in DOMAIN r.To : r.To[k].Email = ""
    [] i = 4 -> \E k \in DOMAIN r.Attachments :
                  r.Attachments[k].Content = "" \/ r.Attachments[k].Filename = ""
    [] i = 5 -> r.Subject = ""
    [] i = 6 -> r.Text = "" /\ r.HTML = ""
    [] i = 7 -> Len(r.Category) >= 256

Violations(r) == {i \in 1..7 : RuleViolated(i, r)}

FirstViolation(r) == CHOOSE i \in Violations(r) : \A j \in Violations(r) : i <= j

RuleMessage(i) ==
  CASE i = 1 -> "'from' address is required"
    [] i = 2 -> "'to' address is required"
    [] i = 3 -> "'email' is required in 'to' address"
    [] i = 5 -> "'subject' is required"
    [] i = 6 -> "one of 'text' or 'html' is required"
    [] i = 7 -> "'category' is greater than 255 chars"

\* The error of a call is one that validate made.
IsValidationError(err) == err.type = "errorString"

\* C1: for every non-null request, the error Send returns from validate is
\* the message of the first violated rule in the order 1..7 (for rule 4,
\* an error that is none of the six fixed messages), and validate returns no
\* error exactly when no rule is violated; a category of 255 characters
\* passes and one of 256 fails.
C1_ValidationOrder ==
  ret.op = "Send" /\ ret.request # NullRequest =>
    LET r == ret.request IN
    IF Violations(r) = {} THEN ~IsValidationError(ret.err)
    ELSE LET i == FirstViolation(r) IN
         /\ IsValidationError(ret.err)
         /\ i # 4 => ret.err.msg = RuleMessage(i)
         /\ i = 4 => ret.err.msg \notin {RuleMessage(j) : j \in {1, 2, 3, 5, 6, 7}}

\* A request whose only violation is a category of 256 characters was sent.
C1_Witness ==
  /\ ret.op = "Send"
  /\ ret.request # NullRequest
  /\ Violations(ret.request) = {7}
  /\ Len(ret.request.Category) = 256
  /\ ret.err.msg = "'category' is greater than 255 chars"

\* The messages the attachment check owes, attachment by attachment, the
\* last attachment's after all the others.
RECURSIVE AttachmentMessages(_)
AttachmentMessages(atts) ==
  IF atts = <<>> THEN <<>>
  ELSE LET n == Len(atts)
           a == atts[n]
       IN AttachmentMessages(SubSeq(atts, 1, n - 1))
          \o (IF a.Content = "" /\ a.Filename = ""
                THEN <<"'content' is required in attachment", "'filename' is required in attachment">>
              ELSE IF a.Content = "" THEN <<"'content' is required in attachment">>
              ELSE IF a.Filename = "" THEN <<"'filename' is required in attachment">>
              ELSE <<>>)

\* C2: when rules 1-3 pass and there are attachments, the attachment check
\* fails exactly when some attachment lacks content or filename, and its one
\* error is the "; "-join of one message per missing content and per missing
\* filename over all attachments, content before filename for one attachment;
\* rules 5-7 do not decide the error then.
C2_AttachmentAggregate ==
  ret.op = "Send" /\ ret.request # NullRequest =>
    LET r == ret.request IN
    (Violations(r) \cap {1, 2, 3} = {} /\ r.Attachments # <<>>) =>
      IF RuleViolated(4, r)
        THEN ret.err = ErrorsNew(Join(AttachmentMessages(r.Attachments), "; "))
        ELSE IsValidationError(ret.err) => ret.err.msg \in {RuleMessage(j) : j \in {5, 6, 7}}

\* Two attachments were sent, the first lacking both content and filename
\* and the second its filename, with an empty subject.
C2_Witness ==
  /\ ret.op = "Send"
  /\ ret.request # NullRequest
  /\ Len(ret.request.Attachments) = 2
  /\ ret.request.Subject = ""
  /\ ret.err.type = "errorString"
  /\ ret.err.msg = "'content' is required in attachment; 'filename' is required in attachment; 'filename' is required in attachment"

(***************************************************************************)
(* Claims about Send.                                                      *)
(***************************************************************************)
\* What the specification appends to the base path for each client.
SendSuffix(sc) ==
  IF sc.kind = "production" THEN "/send" ELSE "/send/" \o ToString(sc.inboxID)

\* C3: every request a Send call issues is a POST addressed to the
\* configured base path followed by /send (production) or /send/{inbox_id}
\* (sandbox), whatever calls came before it.
C3_SendTarget ==
  ret.op = "Send" =>
    \A k \in DOMAIN ret.sent :
      /\ ret.sent[k].Method = "POST"
      /\ ret.sent[k].URL = URLString([configured EXCEPT !.Path = @ \o SendSuffix(c)])

\* The request the caller passed satisfies every validation rule.
ValidRequest(r) == r # NullRequest /\ Violations(r) = {}

\* The base address of the client is one http.NewRequest can parse.
BaseParses == c.client.baseURL.Host \notin BadHosts

\* C4 as stated: a Send call hands 0 requests to the transport when the
\* request is null or invalid, and exactly 1 when it is non-null and valid.
C4_OnePerValidRequest ==
  ret.op = "Send" =>
    Len(ret.sent) = IF ValidRequest(ret.request) THEN 1 ELSE 0

\* C4 amended: a Send call hands 0 requests to the transport when the
\* request is null, fails validation or cannot be built into an HTTP
\* request, and exactly 1 otherwise, also when the transport fails, the
\* status is not 2xx or the body does not decode.
C4_RequestsPerSend ==
  ret.op = "Send" =>
    Len(ret.sent) = IF ValidRequest(ret.request) /\ BaseParses THEN 1 ELSE 0

\* A valid request met a transport failure, and one request was issued.
C4_Witness ==
  /\ ret.op = "Send"
  /\ ValidRequest(ret.request)
  /\ ret.outcome = TransportFailure
  /\ Len(ret.sent) = 1

\* The transport answered the call with an HTTP response.
Answered == ret.sent # <<>> /\ ~ret.outcome.failed

\* The answer is a 2xx status with a body that decodes as JSON.
AnsweredOK ==
  /\ Answered
  /\ ret.outcome.StatusCode \in 200..299
  /\ ret.outcome.Body.syntax = "object"

\* C5: Send returns a typed response exactly when it returns no error; on a
\* 2xx answer with a decodable body it returns the decoded success flag and
\* message ids, the transport response and no error; on every failure it
\* returns no typed response, the error, and the transport response exactly
\* when an HTTP response was received.
C5_SendResults ==
  ret.op = "Send" =>
    /\ ret.response # NilSendResponse <=> ret.err = Nil
    /\ ret.err = Nil <=> AnsweredOK
    /\ AnsweredOK =>
         /\ ret.response = [Success |-> ret.outcome.Body.members.success,
                            MessageIDs |-> ret.outcome.Body.members.message_ids]
         /\ ret.res = [Response |-> [StatusCode |-> ret.outcome.StatusCode,
                                     Header |-> ret.outcome.Header,
                                     Body |-> ret.outcome.Body]]
    /\ ret.err # Nil =>
         /\ ret.response = NilSendResponse
         /\ ret.res # NilResponse <=> Answered
         /\ Answered => ret.res.Response.StatusCode = ret.outcome.StatusCode

\* A valid request was delivered and the decoded response came back.
C5_Witness ==
  /\ ret.op = "Send"
  /\ ret.err = Nil
  /\ ret.response = [Success |-> TRUE, MessageIDs |-> <<"0c7fd939", "5e7fd111">>]
  /\ ret.res # NilResponse

(***************************************************************************)
(* Claims about serialisation and the transport core.                      *)
(***************************************************************************)
\* C6: serialising the all-default SendEmailRequest yields literally {},
\* every empty field being left out of the output.
C6_EmptyRequestIsBraces ==
  ret.op = "Marshal" /\ ret.request = ZeroRequest => ret.out = "{}"

\* The response the transport handed to Do.
Received == [StatusCode |-> ret.outcome.StatusCode, Header |-> ret.outcome.Header,
             Body |-> ret.outcome.Body]

\* C7: Do classifies a completed response by its status alone: 200..299
\* gives no provider error, any other status gives a structured error that
\* carries the original response (status and headers), whose message is read
\* from the body when the body is a JSON object and is the raw body text
\* when the body is no JSON (or JSON that is no object).
C7_StatusClassifies ==
  ret.op = "Do" /\ ~ret.outcome.failed =>
    IF ret.outcome.StatusCode \in 200..299
      THEN ret.err.type # "ErrorResponse"
      ELSE /\ ret.err.type = "ErrorResponse"
           /\ ret.err.Response = Received
           /\ ret.resp = [Response |-> Received]
           /\ ret.err.Message = IF ret.outcome.Body.syntax = "object"
                                  THEN ret.outcome.Body.members.error
                                  ELSE ret.outcome.Body.raw

\* Do met a status of 300 with a body that is no JSON, and the error carries
\* the raw text.
C7_Witness ==
  /\ ret.op = "Do"
  /\ ~ret.outcome.failed
  /\ ret.outcome.StatusCode = 300
  /\ ret.outcome.Body = BodyText
  /\ ret.err.type = "ErrorResponse"
  /\ ret.err.Message = "Service Unavailable"

\* C8: every request NewRequest returns carries Accept: application/json,
\* the fixed User-Agent and Authorization: Bearer <api_key>; it carries
\* Content-Type: application/json exactly when a body was attached, and a
\* body is attached exactly when the method is none of GET, HEAD, OPTIONS
\* and the body value is non-null.
C8_RequestHeaders ==
  ret.op = "NewRequest" /\ ret.err = Nil =>
    /\ ret.req.Header.Accept = "application/json"
    /\ ret.req.Header.UserAgent = userAgent
    /\ ret.req.Header.Authorization = "Bearer " \o c.client.apiKey
    /\ ret.req.HasBody <=> (ret.method \notin {"GET", "HEAD", "OPTIONS"} /\ ret.body # NilBody)
    /\ ret.req.Header.ContentType = "application/json" <=> ret.req.HasBody
    /\ ret.req.Header.ContentType \in {"", "application/json"}

\* Do got a 2xx response.
DoSucceeded == ret.op = "Do" /\ ~ret.outcome.failed /\ ret.outcome.StatusCode \in 200..299

\* What Do does with a 2xx body, given the message of the error for a
\* destination it cannot fill.
BodyHandling(unsupported) ==
  DoSucceeded =>
    /\ ret.resp = [Response |-> Received]
    /\ ret.v = "nil" => ret.err = Nil /\ ret.value = NoValue
    /\ ret.v = "string" => ret.err = Nil /\ ret.value = ret.outcome.Body.raw
    /\ (ret.v = "typed" /\ ret.req.Header.Accept = "application/json") =>
         IF ret.outcome.Body.syntax = "object"
           THEN /\ ret.err = Nil
                /\ ret.value = [Success |-> ret.outcome.Body.members.success,
                                MessageIDs |-> ret.outcome.Body.members.message_ids]
           ELSE ret.err.type = "json.SyntaxError"
    /\ (ret.v = "typed" /\ ret.req.Header.Accept # "application/json") =>
         ret.err = ErrorsNew(unsupported)

C10_CoreStateUnchanged ==
  [][ret'.op \in {"NewRequest", "Do", "Send"} => c'.client = c.client]_vars

(***************************************************************************)
(* C11: concurrent calls on one client.                                    *)
(***************************************************************************)
\* The address of the request of call p when the call runs alone on the
\* client as it was constructed.
AloneURL(p) ==
  NewRequest([c.client EXCEPT !.baseURL = configured], "POST", calls[p].path, NilBody).req.URL

\* C11: when several Send or NewRequest calls run concurrently on one
\* client whose base address no setup code changes, no call touches a
\* client field that another running call writes, and the request of every
\* call is addressed to the URL the call has when run alone.
C11_CallsShareNoState ==
  \A p \in Procs :
    /\ ~calls[p].shared
    /\ calls[p].pc = "done" => calls[p].url = AloneURL(p)

(***************************************************************************)
(* C12: the response body when Do returns.                                 *)
(***************************************************************************)
\* C12: whenever the transport returns a response to Do, the body of the
\* response has been read to its end and closed when Do returns, whatever
\* the destination, the status and the outcome of decoding; when the
\* transport fails there is no response body left open.
C12_BodyDrainedAndClosed ==
  ret.op = "Do" =>
    IF ret.outcome.failed
      THEN ret.body = NoBody
      ELSE ret.body.closed /\ ret.body.unread = ""

====
